---------------------------- MODULE Spec2Model ----------------------------
(***************************************************************************)
(* Model of the asynchronous Graylog HTTP hook for logrus                  *)
(* (graylog-hook.go): callers' Fire, the background goroutine fire with    *)
(* sendEntry's retry loop, the sync.WaitGroup behind Flush, and the        *)
(* construction of the hook from the package variable BufSize.             *)
(*                                                                         *)
(* Goroutines are modelled by program counters; one action is one step     *)
(* between two points where another goroutine can observe or change the    *)
(* shared state (the channel buf and the WaitGroup wg).                    *)
(***************************************************************************)
EXTENDS Integers, Sequences, FiniteSets

\* ------------------------------------------------------------ bounds
\* Number of Fire calls made in one behaviour (each gets a fresh record id).
MaxFires == 2
\* Largest retry count a hook is constructed with (the smallest is -1).
MaxRetries == 2
\* Largest value the package variable BufSize takes.
MaxBufSize == 2

\* Largest instant of the clock and of a record's time.
MaxTime == 1
\* Largest value a client assigns to hook.Level.
MaxLevel == 7

Callers == {"c1", "c2"}
Flushers == {"f1"}
Ids == 1..MaxFires
RetryValues == -1..MaxRetries
BufSizes == 0..MaxBufSize

\* What httpClient.Do can produce for one request: a transport error, or a
\* completed HTTP exchange with a 2xx or a non-2xx status.
DoOutcomes == {"err", "2xx", "non2xx"}

VARIABLES
    BufSize,    \* the package variable BufSize
    hook,       \* "none" before NewGraylogHook, then "ok" or "failed"
    bufCap,     \* cap(hook.buf)
    retries,    \* hook.retries
    urlOK,      \* whether http.NewRequest accepts hook.graylogAddress
    workers,    \* number of goroutines running hook.fire
    buf,        \* hook.buf: the queued payloads, oldest first
    wg,         \* hook.wg: the WaitGroup's counter
    wgWaiters,  \* hook.wg: the goroutines parked in Wait
    sendq,      \* hook.buf: the callers parked in a send, oldest first
    wpc,        \* the worker's position in fire / sendEntry
    wcur,       \* the worker's messageBytes (0: none)
    wi,         \* sendEntry's loop variable i
    cpc,        \* each caller's position in Fire
    ccur,       \* each caller's messageBytes (0: none)
    fpc,        \* each flusher's position in Flush
    nextId,     \* the id the next Fire call's record gets
    panicked,   \* the process has panicked
    \* ---- history, read by no action's guard
    marshalled, \* per record: "none", "ok" (json.Marshal succeeded), "fail"
    fireRet,    \* per record: "none", "nil" (Fire returned nil), "err"
    admitted,   \* the payloads in the order they entered buf
    started,    \* the payloads in the order the worker dequeued them
    arrivals,   \* the payloads in the order of their first httpClient.Do
    attempts,   \* this sendEntry call: loop iterations entered
    sends,      \* this sendEntry call: calls of httpClient.Do
    sleeps,     \* this sendEntry call: calls of time.Sleep
    okAt,       \* this sendEntry call: the iteration that ended without error (0: none)
    status,     \* this sendEntry call: the status of the completed exchange
    incs,       \* per payload: wg.Add(1) calls
    decs,       \* per payload: wg.Done() calls
    fseen,      \* per flusher: the payloads whose Fire had returned at the call
    fzero,      \* per flusher: the counter value read when Flush returned
    \* ---- the hook's other fields, and the encoder's inputs and results
    env,        \* os.Hostname(), path.Base(os.Args[0]) and the argument extra
    hookCfg,    \* hook.hostname, hook.facility, hook.extra, hook.Level
    levelsRet,  \* the last Levels() call: the threshold it read and its result
    entry,      \* the *logrus.Entry of the last Fire call
    now,        \* time.Now() in that Fire call
    wire,       \* the result of json.Marshal(grMessage) in that call
    decoded     \* what a collector decodes from the payload

cfgVars == <<BufSize, hook, bufCap, retries, urlOK, workers>>
sharedVars == <<buf, sendq, wg, wgWaiters>>
workerVars == <<wpc, wcur, wi>>
callerVars == <<cpc, ccur, nextId>>
flushVars == <<fpc, fseen, fzero>>
deliveryHist == <<started, arrivals, attempts, sends, sleeps, okAt, status, decs>>
fireHist == <<fireRet, admitted, incs>>
encVars == <<env, hookCfg, levelsRet, entry, now, wire, decoded>>

vars == <<BufSize, hook, bufCap, retries, urlOK, workers, buf, sendq, wg, wgWaiters,
          wpc, wcur, wi, cpc, ccur, fpc, nextId, panicked, marshalled, fireRet,
          admitted,
          started, arrivals, attempts, sends, sleeps, okAt, status, incs, decs,
          fseen, fzero, env, hookCfg, levelsRet, entry, now, wire, decoded>>

\* ------------------------------------------------------------ helpers

\* The process runs and a hook exists.
Running == hook = "ok" /\ ~panicked

\* Faulty variant of ChanCanSend: the capacity is read from the package
\* variable at each send.
ChanCanSend_ReadsBufSize(q) == Len(q) < BufSize

\* hook.buf <- messageBytes goes through when the channel has a free slot;
\* otherwise the sender parks until a receive takes its value.
ChanCanSend(q) == Len(q) < bufCap

\* Faulty variant of ChanSend: the payload is put at the head of the queue.
ChanSend_Front(q, m) == <<m>> \o q

ChanSend(q, m) == Append(q, m)

\* <-hook.buf : the oldest payload, and the channel without it.
ChanRecvValue(q) == Head(q)

ChanRecvRest(q) == Tail(q)

\* Faulty variant of LoopCond: i <= hook.retries.
LoopCond_OffByOne(i) == i <= retries

\* Faulty variant of LoopCond: the body runs once before the bound is looked at.
LoopCond_AtLeastOnce(i) == i = 0 \/ i < retries

\* Faulty variant of LoopCond: i != hook.retries.
LoopCond_NotEqual(i) == i # retries

\* sendEntry's loop condition i < hook.retries.
LoopCond(i) == i < retries

\* wg.Add(delta) on the counter.
WgAdd(n, delta) == n + delta

\* The goroutines wg.Done() releases: all waiters when the counter reaches 0.
WgReleased(n) == IF n = 0 THEN wgWaiters ELSE {}

\* ------------------------------------------------------------ the encoder

\* logrus.DebugLevel, the Level NewGraylogHook gives the hook.
DebugLevel == 5

\* logrus.AllLevels: Panic, Fatal, Error, Warn, Info, Debug, Trace.
AllLevels == <<0, 1, 2, 3, 4, 5, 6>>

\* Go values of a field map (interface{}): a string, an int, a channel (which
\* encoding/json cannot serialize).
StrVal(x) == [k |-> "str", s |-> x, n |-> 0]
IntVal(x) == [k |-> "int", s |-> "", n |-> x]
ChanVal == [k |-> "chan", s |-> "", n |-> 0]

EmptyMap == [x \in {} |-> ChanVal]

\* The field maps a record carries (entry.Data).
DataMaps ==
    { EmptyMap,
      [x \in {"host"} |-> StrVal("evil")],
      [x \in {"n"} |-> IntVal(1)],
      [x \in {"f"} |-> ChanVal] }

\* The records passed to Fire: message, time, level, field map.
Entries == [Message : {"", "hello"}, Time : 0..MaxTime, Level : {0, 4}, Data : DataMaps]

NoEntry == [Message |-> "", Time |-> 0, Level |-> 0, Data |-> EmptyMap]

\* os.Hostname(), path.Base(os.Args[0]) and the extra map given to
\* NewGraylogHook.
Envs ==
    [host : {"h1", "h2"}, prog : {"app"},
     extra : {EmptyMap, [x \in {"env"} |-> StrVal("prod")], [x \in {"c"} |-> ChanVal]}]

DefaultEnv == [host |-> "h1", prog |-> "app", extra |-> EmptyMap]

\* The fields NewGraylogHook gives the hook.
HookFields ==
    [hostname |-> env.host, facility |-> env.prog, extra |-> env.extra,
     Level |-> DebugLevel]

NoHookFields == [hostname |-> "", facility |-> "", extra |-> EmptyMap, Level |-> 0]

\* setLevel: int32(logrusLevel) of a uint32; the number is unchanged below
\* 2^31, and every level of Entries is.
setLevel(logrusLevel) == logrusLevel

\* Faulty variant of GraylogMessageOf: a record field named like an envelope
\* field replaces the hook's value.
GraylogMessageOf_FieldsOverride(e, t) ==
    [Version |-> "1.0",
     Host |-> IF "host" \in DOMAIN e.Data THEN e.Data["host"].s ELSE hookCfg.hostname,
     Short |-> e.Message,
     Full |-> "",
     TimeUnix |-> t,
     Level |-> setLevel(e.Level),
     Facility |-> hookCfg.facility,
     File |-> "",
     Line |-> 0,
     LogFields |-> e.Data,
     Extra |-> hookCfg.extra]

\* Fire: the GraylogMessage built for entry e when time.Now() is t.
GraylogMessageOf(e, t) ==
    [Version |-> "1.0",
     Host |-> hookCfg.hostname,
     Short |-> e.Message,
     Full |-> "",
     TimeUnix |-> t,
     Level |-> setLevel(e.Level),
     Facility |-> hookCfg.facility,
     File |-> "",
     Line |-> 0,
     LogFields |-> e.Data,
     Extra |-> hookCfg.extra]

\* encoding/json: the JSON value of a Go value, and of a map.
JsonOf(v) ==
    IF v.k = "str" THEN [t |-> "string", s |-> v.s, n |-> 0]
    ELSE [t |-> "number", s |-> "", n |-> v.n]

JsonMap(m) == [x \in DOMAIN m |-> JsonOf(m[x])]

Serializable(m) == \A x \in DOMAIN m : m[x].k # "chan"

NoWire ==
    [st |-> "none", present |-> {}, version |-> "", host |-> "",
     short_message |-> "", timestamp |-> 0, level |-> 0, facility |-> "",
     extra |-> EmptyMap, log_fields |-> EmptyMap]

\* json.Marshal(grMessage): an error for a value that cannot be serialized,
\* otherwise the JSON object; a field tagged omitempty is left out when it is
\* "", 0 or an empty map (full_message, file and line always are), and the
\* time.Time field is always there.
Marshal(g) ==
    IF ~(Serializable(g.Extra) /\ Serializable(g.LogFields))
    THEN [NoWire EXCEPT !.st = "error"]
    ELSE [st |-> "ok",
          present |-> {"timestamp"}
                      \cup (IF g.Version # "" THEN {"version"} ELSE {})
                      \cup (IF g.Host # "" THEN {"host"} ELSE {})
                      \cup (IF g.Short # "" THEN {"short_message"} ELSE {})
                      \cup (IF g.Full # "" THEN {"full_message"} ELSE {})
                      \cup (IF g.Level # 0 THEN {"level"} ELSE {})
                      \cup (IF g.Facility # "" THEN {"facility"} ELSE {})
                      \cup (IF g.File # "" THEN {"file"} ELSE {})
                      \cup (IF g.Line # 0 THEN {"line"} ELSE {})
                      \cup (IF DOMAIN g.Extra # {} THEN {"extra"} ELSE {})
                      \cup (IF DOMAIN g.LogFields # {} THEN {"log_fields"} ELSE {}),
          version |-> g.Version,
          host |-> g.Host,
          short_message |-> g.Short,
          timestamp |-> g.TimeUnix,
          level |-> g.Level,
          facility |-> g.Facility,
          extra |-> JsonMap(g.Extra),
          log_fields |-> JsonMap(g.LogFields)]

NoDecoded ==
    [st |-> "none", version |-> "", host |-> "", facility |-> "", message |-> "",
     timestamp |-> 0, extra |-> EmptyMap, fields |-> EmptyMap]

\* A collector's decoding of the payload: the keys that are present, and the
\* zero value for the others.
Unmarshal(w) ==
    [st |-> "ok",
     version |-> IF "version" \in w.present THEN w.version ELSE "",
     host |-> IF "host" \in w.present THEN w.host ELSE "",
     facility |-> IF "facility" \in w.present THEN w.facility ELSE "",
     message |-> IF "short_message" \in w.present THEN w.short_message ELSE "",
     timestamp |-> IF "timestamp" \in w.present THEN w.timestamp ELSE 0,
     extra |-> IF "extra" \in w.present THEN w.extra ELSE EmptyMap,
     fields |-> IF "log_fields" \in w.present THEN w.log_fields ELSE EmptyMap]

\* Faulty variant of LevelIncluded: level < hook.Level.
LevelIncluded_Strict(level, T) == level < T

\* Levels: the test level <= hook.Level.
LevelIncluded(level, T) == level <= T

\* Levels: the loop over logrus.AllLevels from index k on, appending the
\* levels that pass the test.
RECURSIVE LevelsFrom(_, _)
LevelsFrom(k, T) ==
    IF k > Len(AllLevels) THEN <<>>
    ELSE (IF LevelIncluded(AllLevels[k], T) THEN <<AllLevels[k]>> ELSE <<>>)
            \o LevelsFrom(k + 1, T)

NoLevels == [called |-> FALSE, T |-> 0, levels |-> <<>>]

\* ------------------------------------------------------------ Init

\* The state before NewGraylogHook is called, the environment apart.
InitState ==
    /\ BufSize \in BufSizes
    /\ hook = "none"
    /\ bufCap = 0
    /\ retries = 0
    /\ urlOK = TRUE
    /\ workers = 0
    /\ buf = <<>>
    /\ sendq = <<>>
    /\ wg = 0
    /\ wgWaiters = {}
    /\ wpc = "none"
    /\ wcur = 0
    /\ wi = 0
    /\ cpc = [c \in Callers |-> "idle"]
    /\ ccur = [c \in Callers |-> 0]
    /\ fpc = [f \in Flushers |-> "idle"]
    /\ nextId = 1
    /\ panicked = FALSE
    /\ marshalled = [p \in Ids |-> "none"]
    /\ fireRet = [p \in Ids |-> "none"]
    /\ admitted = <<>>
    /\ started = <<>>
    /\ arrivals = <<>>
    /\ attempts = 0
    /\ sends = 0
    /\ sleeps = 0
    /\ okAt = 0
    /\ status = "none"
    /\ incs = [p \in Ids |-> 0]
    /\ decs = [p \in Ids |-> 0]
    /\ fseen = [f \in Flushers |-> {}]
    /\ fzero = [f \in Flushers |-> -1]
    /\ hookCfg = NoHookFields
    /\ levelsRet = NoLevels
    /\ entry = NoEntry
    /\ now = 0
    /\ wire = NoWire
    /\ decoded = NoDecoded

Init ==
    /\ InitState
    /\ env = DefaultEnv

\* ------------------------------------------------------------ configuration

\* An assignment to the package variable BufSize, at any time.
SetBufSize(n) ==
    /\ ~panicked
    /\ n # BufSize
    /\ BufSize' = n
    /\ UNCHANGED <<hook, bufCap, retries, urlOK, workers>>
    /\ UNCHANGED <<sharedVars, workerVars, callerVars, flushVars, deliveryHist,
                   fireHist, marshalled, panicked>>
    /\ UNCHANGED encVars

\* Faulty variant of NewGraylogHook: go hook.fire() runs before the result of
\* os.Hostname() is looked at.
NewGraylogHook_WorkerFirst(r, hostOK, addrOK) ==
    /\ hook = "none"
    /\ hook' = IF hostOK THEN "ok" ELSE "failed"
    /\ bufCap' = BufSize
    /\ retries' = r
    /\ urlOK' = addrOK
    /\ workers' = workers + 1
    /\ wpc' = "recv"
    /\ UNCHANGED <<BufSize, sharedVars, wcur, wi, callerVars, flushVars,
                   deliveryHist, fireHist, marshalled, panicked>>
    /\ hookCfg' = HookFields
    /\ UNCHANGED <<env, levelsRet, entry, now, wire, decoded>>

\* NewGraylogHook(graylogAddress, retries, extra, httpClient): hostOK is
\* whether os.Hostname() succeeds, addrOK whether graylogAddress is a URL
\* http.NewRequest accepts.
NewGraylogHook(r, hostOK, addrOK) ==
    /\ hook = "none"
    /\ IF ~hostOK
       THEN /\ hook' = "failed"
            /\ UNCHANGED <<bufCap, retries, urlOK, workers, wpc>>
       ELSE /\ hook' = "ok"
            /\ bufCap' = BufSize
            /\ retries' = r
            /\ urlOK' = addrOK
            /\ workers' = workers + 1
            /\ wpc' = "recv"
    /\ UNCHANGED <<BufSize, sharedVars, wcur, wi, callerVars, flushVars,
                   deliveryHist, fireHist, marshalled, panicked>>
    /\ hookCfg' = IF hostOK THEN HookFields ELSE hookCfg
    /\ UNCHANGED <<env, levelsRet, entry, now, wire, decoded>>

\* ------------------------------------------------------------ Fire

\* Faulty variant of FireBegin: the "return err" after a failed json.Marshal is
\* missing from the path to the queue (the error is still handed back).
FireBegin_EnqueueAnyway(c, marshalOK) ==
    /\ Running
    /\ cpc[c] = "idle"
    /\ nextId <= MaxFires
    /\ nextId' = nextId + 1
    /\ marshalled' = [marshalled EXCEPT ![nextId] = IF marshalOK THEN "ok" ELSE "fail"]
    /\ cpc' = [cpc EXCEPT ![c] = "add"]
    /\ ccur' = [ccur EXCEPT ![c] = nextId]
    /\ fireRet' = IF marshalOK THEN fireRet ELSE [fireRet EXCEPT ![nextId] = "err"]
    /\ UNCHANGED <<cfgVars, sharedVars, workerVars, flushVars, deliveryHist,
                   admitted, incs, panicked>>
    /\ UNCHANGED encVars

\* Fire, up to json.Marshal: the record gets its id; when Marshal fails Fire
\* returns the error, otherwise the caller goes on to wg.Add(1).
FireMarshal(c, marshalOK) ==
    /\ Running
    /\ cpc[c] = "idle"
    /\ nextId <= MaxFires
    /\ nextId' = nextId + 1
    /\ marshalled' = [marshalled EXCEPT ![nextId] = IF marshalOK THEN "ok" ELSE "fail"]
    /\ IF marshalOK
       THEN /\ cpc' = [cpc EXCEPT ![c] = "add"]
            /\ ccur' = [ccur EXCEPT ![c] = nextId]
            /\ UNCHANGED fireRet
       ELSE /\ fireRet' = [fireRet EXCEPT ![nextId] = "err"]
            /\ UNCHANGED <<cpc, ccur>>
    /\ UNCHANGED <<cfgVars, sharedVars, workerVars, flushVars, deliveryHist,
                   admitted, incs, panicked>>

\* Fire, up to json.Marshal, with the outcome of Marshal as the input and the
\* payload's content left aside.
FireBegin(c, marshalOK) ==
    /\ FireMarshal(c, marshalOK)
    /\ UNCHANGED encVars

\* Faulty variant of FireAdd: the hook.wg.Add(1) is missing.
FireAdd_Skip(c) ==
    /\ Running
    /\ cpc[c] = "add"
    /\ cpc' = [cpc EXCEPT ![c] = "send"]
    /\ UNCHANGED <<cfgVars, sharedVars, workerVars, ccur, nextId, flushVars,
                   deliveryHist, fireHist, marshalled, panicked>>
    /\ UNCHANGED encVars

\* hook.wg.Add(1)
FireAdd(c) ==
    /\ Running
    /\ cpc[c] = "add"
    /\ wg' = WgAdd(wg, 1)
    /\ incs' = [incs EXCEPT ![ccur[c]] = @ + 1]
    /\ cpc' = [cpc EXCEPT ![c] = "send"]
    /\ UNCHANGED <<cfgVars, buf, sendq, wgWaiters, workerVars, ccur, nextId,
                   flushVars, deliveryHist, fireRet, admitted, marshalled,
                   panicked>>
    /\ UNCHANGED encVars

\* Faulty variant of FireSend: a non-blocking send (select with default) that drops
\* the payload and returns an error when the channel is full.
FireSend_DropWhenFull(c) ==
    /\ Running
    /\ cpc[c] = "send"
    /\ IF ChanCanSend(buf)
       THEN /\ buf' = ChanSend(buf, ccur[c])
            /\ admitted' = Append(admitted, ccur[c])
            /\ fireRet' = [fireRet EXCEPT ![ccur[c]] = "nil"]
       ELSE /\ fireRet' = [fireRet EXCEPT ![ccur[c]] = "err"]
            /\ UNCHANGED <<buf, admitted>>
    /\ cpc' = [cpc EXCEPT ![c] = "idle"]
    /\ ccur' = [ccur EXCEPT ![c] = 0]
    /\ UNCHANGED <<cfgVars, sendq, wg, wgWaiters, workerVars, nextId, flushVars,
                   deliveryHist, incs, marshalled, panicked>>
    /\ UNCHANGED encVars

\* hook.buf <- messageBytes: with a free slot the payload enters the channel
\* and Fire returns nil; on a full channel the caller parks in the channel's
\* send queue.
FireSend(c) ==
    /\ Running
    /\ cpc[c] = "send"
    /\ IF ChanCanSend(buf)
       THEN /\ buf' = ChanSend(buf, ccur[c])
            /\ admitted' = Append(admitted, ccur[c])
            /\ fireRet' = [fireRet EXCEPT ![ccur[c]] = "nil"]
            /\ cpc' = [cpc EXCEPT ![c] = "idle"]
            /\ ccur' = [ccur EXCEPT ![c] = 0]
            /\ UNCHANGED sendq
       ELSE /\ cpc' = [cpc EXCEPT ![c] = "parked"]
            /\ sendq' = Append(sendq, c)
            /\ UNCHANGED <<buf, admitted, fireRet, ccur>>
    /\ UNCHANGED <<cfgVars, wg, wgWaiters, workerVars, nextId, flushVars,
                   deliveryHist, incs, marshalled, panicked>>
    /\ UNCHANGED encVars

\* Faulty variant of FireReturn: Fire hands back the transport error the worker is
\* retrying on at that moment.
FireReturn_ReportsTransport(c) ==
    /\ Running
    /\ cpc[c] = "woken"
    /\ fireRet' = [fireRet EXCEPT ![ccur[c]] = IF wpc = "sleep" THEN "err" ELSE "nil"]
    /\ cpc' = [cpc EXCEPT ![c] = "idle"]
    /\ ccur' = [ccur EXCEPT ![c] = 0]
    /\ UNCHANGED <<cfgVars, sharedVars, workerVars, nextId, flushVars,
                   deliveryHist, admitted, incs, marshalled, panicked>>
    /\ UNCHANGED encVars

\* Fire, after a receive has taken the parked caller's payload: return nil.
FireReturn(c) ==
    /\ Running
    /\ cpc[c] = "woken"
    /\ fireRet' = [fireRet EXCEPT ![ccur[c]] = "nil"]
    /\ cpc' = [cpc EXCEPT ![c] = "idle"]
    /\ ccur' = [ccur EXCEPT ![c] = 0]
    /\ UNCHANGED <<cfgVars, sharedVars, workerVars, nextId, flushVars,
                   deliveryHist, admitted, incs, marshalled, panicked>>
    /\ UNCHANGED encVars

\* ------------------------------------------------------------ the worker

\* Faulty variant of WorkerRecv: fire takes the next payload without waiting
\* for sendEntry to return (go hook.sendEntry(messageBytes)).
WorkerRecv_NoWait ==
    /\ Running
    /\ wpc # "none"
    /\ buf # <<>> \/ sendq # <<>>
    /\ LET fromBuf == buf # <<>>
           v == IF fromBuf THEN ChanRecvValue(buf) ELSE ccur[Head(sendq)]
           rest == IF fromBuf THEN ChanRecvRest(buf) ELSE <<>>
       IN /\ wcur' = v
          /\ started' = Append(started, v)
          /\ IF sendq # <<>>
             THEN /\ buf' = IF fromBuf THEN ChanSend(rest, ccur[Head(sendq)]) ELSE rest
                  /\ admitted' = Append(admitted, ccur[Head(sendq)])
                  /\ cpc' = [cpc EXCEPT ![Head(sendq)] = "woken"]
                  /\ sendq' = Tail(sendq)
             ELSE /\ buf' = rest
                  /\ UNCHANGED <<admitted, cpc, sendq>>
    /\ wi' = 0
    /\ wpc' = "loop"
    /\ UNCHANGED <<cfgVars, wg, wgWaiters, ccur, nextId, flushVars, arrivals,
                   attempts, sends, sleeps, okAt, status, decs, fireRet, incs,
                   marshalled, panicked>>
    /\ UNCHANGED encVars

\* fire: messageBytes := <-hook.buf, and the call of sendEntry (i := 0).
\* The receive takes the oldest payload of the channel; the payload of the
\* first parked sender, if any, enters the channel in its place (on a channel
\* of capacity 0 it is handed over directly) and that sender resumes.
WorkerRecv ==
    /\ Running
    /\ wpc = "recv"
    /\ buf # <<>> \/ sendq # <<>>
    /\ LET fromBuf == buf # <<>>
           v == IF fromBuf THEN ChanRecvValue(buf) ELSE ccur[Head(sendq)]
           rest == IF fromBuf THEN ChanRecvRest(buf) ELSE <<>>
       IN /\ wcur' = v
          /\ started' = Append(started, v)
          /\ IF sendq # <<>>
             THEN /\ buf' = IF fromBuf THEN ChanSend(rest, ccur[Head(sendq)]) ELSE rest
                  /\ admitted' = Append(admitted, ccur[Head(sendq)])
                  /\ cpc' = [cpc EXCEPT ![Head(sendq)] = "woken"]
                  /\ sendq' = Tail(sendq)
             ELSE /\ buf' = rest
                  /\ UNCHANGED <<admitted, cpc, sendq>>
    /\ wi' = 0
    /\ wpc' = "loop"
    /\ UNCHANGED <<cfgVars, wg, wgWaiters, ccur, nextId, flushVars, arrivals,
                   attempts, sends, sleeps, okAt, status, decs, fireRet, incs,
                   marshalled, panicked>>
    /\ UNCHANGED encVars

\* sendEntry: the test i < hook.retries; the body is entered or the function
\* returns.
WorkerLoop ==
    /\ Running
    /\ wpc = "loop"
    /\ IF LoopCond(wi)
       THEN /\ wpc' = "newreq"
            /\ attempts' = attempts + 1
       ELSE /\ wpc' = "done"
            /\ UNCHANGED attempts
    /\ UNCHANGED <<cfgVars, sharedVars, wcur, wi, callerVars, flushVars, started,
                   arrivals, sends, sleeps, okAt, status, decs, fireHist,
                   marshalled, panicked>>
    /\ UNCHANGED encVars

\* sendEntry: http.NewRequest("POST", hook.graylogAddress, ...).
WorkerNewRequest ==
    /\ Running
    /\ wpc = "newreq"
    /\ wpc' = IF urlOK THEN "do" ELSE "sleep"
    /\ UNCHANGED <<cfgVars, sharedVars, wcur, wi, callerVars, flushVars,
                   deliveryHist, fireHist, marshalled, panicked>>
    /\ UNCHANGED encVars

\* Faulty variant of AfterDo: a non-2xx response is retried like a transport error.
AfterDo_RetryNon2xx(o) == IF o = "2xx" THEN "done" ELSE "sleep"

\* Faulty variant of AfterDo: no sleep after the last attempt's error.
AfterDo_NoSleepAfterLast(o) ==
    IF o = "err" /\ wi + 1 < retries THEN "sleep" ELSE "done"

\* Where sendEntry goes when httpClient.Do returned o: to the sleep before
\* the next iteration on an error, out of the loop (break) otherwise.
AfterDo(o) == IF o = "err" THEN "sleep" ELSE "done"

\* sendEntry: respPost, err := hook.httpClient.Do(reqPost), which returns o.
WorkerDo(o) ==
    /\ Running
    /\ wpc = "do"
    /\ sends' = sends + 1
    /\ arrivals' = IF sends = 0 THEN Append(arrivals, wcur) ELSE arrivals
    /\ wpc' = AfterDo(o)
    /\ IF o = "err"
       THEN UNCHANGED <<okAt, status>>
       ELSE /\ okAt' = attempts
            /\ status' = o
    /\ UNCHANGED <<cfgVars, sharedVars, wcur, wi, callerVars, flushVars, started,
                   attempts, sleeps, decs, fireHist, marshalled, panicked>>
    /\ UNCHANGED encVars

\* sendEntry: a call of hook.httpClient.Do that never returns (the client
\* has no timeout).
WorkerHang ==
    /\ Running
    /\ wpc = "do"
    /\ sends' = sends + 1
    /\ arrivals' = IF sends = 0 THEN Append(arrivals, wcur) ELSE arrivals
    /\ wpc' = "hung"
    /\ UNCHANGED <<cfgVars, sharedVars, wcur, wi, callerVars, flushVars, started,
                   attempts, sleeps, okAt, status, decs, fireHist, marshalled,
                   panicked>>
    /\ UNCHANGED encVars

\* sendEntry: time.Sleep(10 * time.Second); continue (i++).
WorkerSleep ==
    /\ Running
    /\ wpc = "sleep"
    /\ sleeps' = sleeps + 1
    /\ wi' = wi + 1
    /\ wpc' = "loop"
    /\ UNCHANGED <<cfgVars, sharedVars, wcur, callerVars, flushVars, started,
                   arrivals, attempts, sends, okAt, status, decs, fireHist,
                   marshalled, panicked>>
    /\ UNCHANGED encVars

\* Faulty variant of WorkerDone: hook.wg.Done() is not deferred but called on the
\* path of a completed exchange only.
WorkerDone_DoneOnSuccessOnly ==
    /\ Running
    /\ wpc = "done"
    /\ LET n == IF okAt # 0 THEN wg - 1 ELSE wg
           released == IF n = 0 /\ okAt # 0 THEN wgWaiters ELSE {}
       IN /\ wg' = n
          /\ decs' = [decs EXCEPT ![wcur] = IF okAt # 0 THEN @ + 1 ELSE @]
          /\ panicked' = (n < 0)
          /\ wgWaiters' = wgWaiters \ released
          /\ fpc' = [f \in Flushers |-> IF f \in released THEN "woken" ELSE fpc[f]]
    /\ wcur' = 0
    /\ wi' = 0
    /\ wpc' = "recv"
    /\ attempts' = 0
    /\ sends' = 0
    /\ sleeps' = 0
    /\ okAt' = 0
    /\ status' = "none"
    /\ UNCHANGED <<cfgVars, buf, sendq, callerVars, fseen, fzero, started,
                   arrivals, fireHist, marshalled>>
    /\ UNCHANGED encVars

\* Faulty variant of WorkerDone: a request that hangs is cancelled (a timeout
\* on the call) and sendEntry returns.
WorkerDone_CancelsHung ==
    /\ Running
    /\ wpc \in {"done", "hung"}
    /\ wg' = WgAdd(wg, -1)
    /\ decs' = [decs EXCEPT ![wcur] = @ + 1]
    /\ panicked' = (wg' < 0)
    /\ wgWaiters' = wgWaiters \ WgReleased(wg')
    /\ fpc' = [f \in Flushers |-> IF f \in WgReleased(wg') THEN "woken" ELSE fpc[f]]
    /\ wcur' = 0
    /\ wi' = 0
    /\ wpc' = "recv"
    /\ attempts' = 0
    /\ sends' = 0
    /\ sleeps' = 0
    /\ okAt' = 0
    /\ status' = "none"
    /\ UNCHANGED <<cfgVars, buf, sendq, callerVars, fseen, fzero, started,
                   arrivals, fireHist, marshalled>>
    /\ UNCHANGED encVars

\* sendEntry returns: the deferred hook.wg.Done() runs, and fire loops
\* (sendEntry's locals and the call's counters are gone).
\* Done releases the goroutines parked in Wait when the counter reaches 0,
\* and panics on a negative counter.
WorkerDone ==
    /\ Running
    /\ wpc = "done"
    /\ wg' = WgAdd(wg, -1)
    /\ decs' = [decs EXCEPT ![wcur] = @ + 1]
    /\ panicked' = (wg' < 0)
    /\ wgWaiters' = wgWaiters \ WgReleased(wg')
    /\ fpc' = [f \in Flushers |-> IF f \in WgReleased(wg') THEN "woken" ELSE fpc[f]]
    /\ wcur' = 0
    /\ wi' = 0
    /\ wpc' = "recv"
    /\ attempts' = 0
    /\ sends' = 0
    /\ sleeps' = 0
    /\ okAt' = 0
    /\ status' = "none"
    /\ UNCHANGED <<cfgVars, buf, sendq, callerVars, fseen, fzero, started,
                   arrivals, fireHist, marshalled>>
    /\ UNCHANGED encVars

\* ------------------------------------------------------------ Flush

\* A call of Flush.
FlushCall(f) ==
    /\ Running
    /\ fpc[f] \in {"idle", "returned"}
    /\ fpc' = [fpc EXCEPT ![f] = "wait"]
    /\ fseen' = [fseen EXCEPT ![f] = {p \in Ids : fireRet[p] = "nil"}]
    /\ fzero' = [fzero EXCEPT ![f] = -1]
    /\ UNCHANGED <<cfgVars, sharedVars, workerVars, callerVars, deliveryHist,
                   fireHist, marshalled, panicked>>
    /\ UNCHANGED encVars

\* Faulty variant of FlushWait: Flush returns without waiting for the counter.
FlushWait_NoWait(f) ==
    /\ Running
    /\ fpc[f] = "wait"
    /\ fpc' = [fpc EXCEPT ![f] = "returned"]
    /\ fzero' = [fzero EXCEPT ![f] = wg]
    /\ UNCHANGED <<cfgVars, sharedVars, workerVars, callerVars, fseen,
                   deliveryHist, fireHist, marshalled, panicked>>
    /\ UNCHANGED encVars

\* hook.wg.Wait(): the counter is read; at 0 Wait returns, otherwise the
\* goroutine registers as a waiter and parks.
FlushWait(f) ==
    /\ Running
    /\ fpc[f] = "wait"
    /\ IF wg = 0
       THEN /\ fpc' = [fpc EXCEPT ![f] = "returned"]
            /\ fzero' = [fzero EXCEPT ![f] = wg]
            /\ UNCHANGED wgWaiters
       ELSE /\ fpc' = [fpc EXCEPT ![f] = "parked"]
            /\ wgWaiters' = wgWaiters \cup {f}
            /\ UNCHANGED fzero
    /\ UNCHANGED <<cfgVars, buf, sendq, wg, workerVars, callerVars, fseen,
                   deliveryHist, fireHist, marshalled, panicked>>
    /\ UNCHANGED encVars

\* hook.wg.Wait(), released by Done: the counter is read again; Wait panics
\* ("WaitGroup is reused before previous Wait has returned") when an Add came
\* in between, and returns otherwise.
FlushWake(f) ==
    /\ Running
    /\ fpc[f] = "woken"
    /\ IF wg # 0
       THEN /\ panicked' = TRUE
            /\ UNCHANGED <<fpc, fzero>>
       ELSE /\ fpc' = [fpc EXCEPT ![f] = "returned"]
            /\ fzero' = [fzero EXCEPT ![f] = wg]
            /\ UNCHANGED panicked
    /\ UNCHANGED <<cfgVars, sharedVars, workerVars, callerVars, fseen,
                   deliveryHist, fireHist, marshalled>>
    /\ UNCHANGED encVars

\* ------------------------------------------------------------ specification

Next ==
    \/ \E n \in BufSizes : SetBufSize(n)
    \/ \E r \in RetryValues, hostOK \in BOOLEAN, addrOK \in BOOLEAN :
          NewGraylogHook(r, hostOK, addrOK)
    \/ \E c \in Callers, marshalOK \in BOOLEAN : FireBegin(c, marshalOK)
    \/ \E c \in Callers : FireAdd(c)
    \/ \E c \in Callers : FireSend(c)
    \/ \E c \in Callers : FireReturn(c)
    \/ WorkerRecv
    \/ WorkerLoop
    \/ WorkerNewRequest
    \/ \E o \in DoOutcomes : WorkerDo(o)
    \/ WorkerHang
    \/ WorkerSleep
    \/ WorkerDone
    \/ \E f \in Flushers : FlushCall(f)
    \/ \E f \in Flushers : FlushWait(f)
    \/ \E f \in Flushers : FlushWake(f)

Spec == Init /\ [][Next]_vars

\* Fire and Flush as a sequential client uses them: every Fire call is made
\* before the first Flush, a Flush is called when every Fire has returned.
FireBeginSeq(c, marshalOK) ==
    /\ \A f \in Flushers : fpc[f] = "idle"
    /\ FireBegin(c, marshalOK)

FlushCallSeq(f) ==
    /\ \A c \in Callers : cpc[c] = "idle"
    /\ FlushCall(f)

\* The worker's steps when every call of httpClient.Do returns.
WorkerStep ==
    \/ WorkerRecv
    \/ WorkerLoop
    \/ WorkerNewRequest
    \/ \E o \in DoOutcomes : WorkerDo(o)
    \/ WorkerSleep
    \/ WorkerDone

\* The steps of a Flush call in progress.
FlushStep == \E f \in Flushers : FlushWait(f) \/ FlushWake(f)

LiveNext ==
    \/ \E n \in BufSizes : SetBufSize(n)
    \/ \E r \in RetryValues, hostOK \in BOOLEAN, addrOK \in BOOLEAN :
          NewGraylogHook(r, hostOK, addrOK)
    \/ \E c \in Callers, marshalOK \in BOOLEAN : FireBeginSeq(c, marshalOK)
    \/ \E c \in Callers : FireAdd(c)
    \/ \E c \in Callers : FireSend(c)
    \/ \E c \in Callers : FireReturn(c)
    \/ WorkerRecv
    \/ WorkerLoop
    \/ WorkerNewRequest
    \/ \E o \in DoOutcomes : WorkerDo(o)
    \/ WorkerSleep
    \/ WorkerDone
    \/ \E f \in Flushers : FlushCallSeq(f)
    \/ \E f \in Flushers : FlushWait(f)
    \/ \E f \in Flushers : FlushWake(f)

\* The Go scheduler runs every runnable goroutine: the worker and a
\* goroutine inside Flush take their next step when it stays possible.
LiveSpec == Init /\ [][LiveNext]_vars /\ WF_vars(WorkerStep) /\ WF_vars(FlushStep)

\* ------------------------------------------------------------ Levels and the payload

\* The client assigns the exported field hook.Level.
SetLevel(t) ==
    /\ Running
    /\ hookCfg.Level # t
    /\ hookCfg' = [hookCfg EXCEPT !.Level = t]
    /\ UNCHANGED <<env, levelsRet, entry, now, wire, decoded>>
    /\ UNCHANGED <<cfgVars, sharedVars, workerVars, callerVars, flushVars,
                   deliveryHist, fireHist, panicked, marshalled>>

\* hook.Levels(): the levels of logrus.AllLevels that pass the test, in order.
Levels ==
    /\ Running
    /\ levelsRet' = [called |-> TRUE, T |-> hookCfg.Level,
                     levels |-> LevelsFrom(1, hookCfg.Level)]
    /\ UNCHANGED <<env, hookCfg, entry, now, wire, decoded>>
    /\ UNCHANGED <<cfgVars, sharedVars, workerVars, callerVars, flushVars,
                   deliveryHist, fireHist, panicked, marshalled>>

LevelsNext ==
    \/ \E r \in RetryValues, hostOK \in BOOLEAN, addrOK \in BOOLEAN :
          NewGraylogHook(r, hostOK, addrOK)
    \/ \E t \in 0..MaxLevel : SetLevel(t)
    \/ Levels

\* The client's use of Levels: construction, assignments to hook.Level, calls.
LevelsSpec == Init /\ [][LevelsNext]_vars

\* Fire(entry) when time.Now() is t, up to json.Marshal: the message is built
\* and marshalled, and the call goes on as FireMarshal says for that outcome.
FireEncode(c, e, t) ==
    /\ FireMarshal(c, Marshal(GraylogMessageOf(e, t)).st = "ok")
    /\ entry' = e
    /\ now' = t
    /\ wire' = Marshal(GraylogMessageOf(e, t))
    /\ decoded' = NoDecoded
    /\ UNCHANGED <<env, hookCfg, levelsRet>>

\* The collector decodes the payload it was sent.
Collect ==
    /\ wire.st = "ok"
    /\ decoded.st = "none"
    /\ decoded' = Unmarshal(wire)
    /\ UNCHANGED <<env, hookCfg, levelsRet, entry, now, wire>>
    /\ UNCHANGED <<cfgVars, sharedVars, workerVars, callerVars, flushVars,
                   deliveryHist, fireHist, panicked, marshalled>>

\* Init in any environment.
EncInit ==
    /\ InitState
    /\ env \in Envs

EncNext ==
    \/ \E hostOK \in BOOLEAN : NewGraylogHook(0, hostOK, TRUE)
    \/ \E e \in Entries, t \in 0..MaxTime : FireEncode("c1", e, t)
    \/ Collect

\* One caller's records, encoded by Fire and decoded by the collector.
EncSpec == EncInit /\ [][EncNext]_vars

\* ------------------------------------------------------------ properties

Range(q) == {q[k] : k \in DOMAIN q}

NoDuplicates(q) == \A j, k \in DOMAIN q : q[j] = q[k] => j = k

IsPrefix(q, r) == Len(q) <= Len(r) /\ q = SubSeq(r, 1, Len(q))

RECURSIVE SumOver(_, _)
SumOver(f, S) ==
    IF S = {} THEN 0
    ELSE LET x == CHOOSE y \in S : TRUE IN f[x] + SumOver(f, S \ {x})

\* The payload's sendEntry call has returned.
Completed(p) == p \in Range(started) /\ p # wcur

InFlush(f) == fpc[f] \in {"wait", "parked", "woken"}

\* C1: the worker starts on the payloads in exactly the order in which they
\* entered the queue, none skipped and none twice, and the collector sees the
\* payloads' first requests in that order too.
C1_FifoDelivery ==
    /\ NoDuplicates(admitted)
    /\ IsPrefix(started, admitted)
    /\ buf = SubSeq(admitted, Len(started) + 1, Len(admitted))
    /\ NoDuplicates(arrivals)
    /\ \A j, k \in DOMAIN arrivals : j < k =>
          \E a, b \in DOMAIN started :
             a < b /\ started[a] = arrivals[j] /\ started[b] = arrivals[k]
    /\ (urlOK /\ retries >= 1) =>
          /\ IsPrefix(arrivals, admitted)
          /\ Len(arrivals) >= Len(started) - 1

\* Two callers' payloads entered a queue of capacity 2 against the order of
\* their Fire calls, waited there together, and were sent in the order of
\* admission.
C1_Witness ==
    /\ bufCap = 2
    /\ admitted = <<2, 1>>
    /\ arrivals = admitted
    /\ \A p \in Ids : fireRet[p] = "nil" /\ decs[p] = 1
    /\ \E f \in Flushers : fpc[f] = "returned" /\ fseen[f] = {1, 2}

\* C2: when Flush has returned, the counter was read as zero and every
\* payload whose Fire had returned before the Flush call has had its
\* sendEntry call completed.
C2_FlushNotEarly ==
    \A f \in Flushers :
        fpc[f] = "returned" =>
            /\ fzero[f] = 0
            /\ \A p \in fseen[f] : Completed(p) /\ decs[p] = 1

\* A Flush called after two Fire calls had returned has returned.
C2_Witness ==
    \E f \in Flushers :
        /\ fpc[f] = "returned"
        /\ Cardinality(fseen[f]) >= 2
        /\ retries >= 1

\* C3: in a run of Fire calls followed by Flush, with every request
\* returning and fair scheduling, a Flush call eventually returns, and when
\* it has returned every accepted payload's sendEntry call has completed.
C3_FlushTerminates ==
    /\ \A f \in Flushers : InFlush(f) ~> (fpc[f] = "returned")
    /\ [](\A f \in Flushers : fpc[f] = "returned" =>
             /\ \A p \in Ids : marshalled[p] = "ok" => Completed(p)
             /\ Len(started) = Cardinality({p \in Ids : marshalled[p] = "ok"})
             /\ wg = 0)

\* Flush has returned after two payloads, each sent at least once, went
\* through sendEntry on a hook with two retries.
C3_Witness ==
    \E f \in Flushers :
        /\ fpc[f] = "returned"
        /\ Len(started) = 2
        /\ retries = 2
        /\ Len(arrivals) = 2

\* C4: with retries >= 1, a sendEntry call in which no attempt completed
\* returns after exactly retries attempts, a sleep following each failed
\* attempt before the next one starts; the counter is then decremented once
\* for the payload and the worker takes the next one.
C4_ExactlyRAttempts ==
    /\ (wpc = "done" /\ okAt = 0 /\ retries >= 1) =>
          /\ attempts = retries
          /\ wi = retries
          /\ sleeps = retries
    /\ (wpc \in {"newreq", "do", "hung", "sleep"}) =>
          /\ attempts = wi + 1
          /\ sleeps = attempts - 1
          /\ attempts <= retries
    /\ \A p \in Ids : decs[p] = IF Completed(p) THEN 1 ELSE 0

\* The worker is about to return from its second payload's sendEntry after
\* two failed requests.
C4_Witness ==
    /\ wpc = "done"
    /\ okAt = 0
    /\ retries = 2
    /\ attempts = 2
    /\ sends = 2
    /\ Len(started) = 2
    /\ decs[started[1]] = 1

\* C5: with retries = 0 the worker makes no attempt, no request and no sleep
\* for any payload and still decrements the counter once per payload, and a
\* Flush after the Fire calls returns.
C5_ZeroRetries ==
    /\ [](retries = 0 =>
             /\ attempts = 0 /\ sends = 0 /\ sleeps = 0
             /\ arrivals = <<>>
             /\ wpc \notin {"newreq", "do", "hung", "sleep"}
             /\ \A p \in Ids : decs[p] = IF Completed(p) THEN 1 ELSE 0)
    /\ \A f \in Flushers : (retries = 0 /\ InFlush(f)) ~> (fpc[f] = "returned")

\* With retries = 0, Flush has returned after two payloads were discarded.
C5_Witness ==
    \E f \in Flushers :
        /\ hook = "ok"
        /\ retries = 0
        /\ fpc[f] = "returned"
        /\ Cardinality(fseen[f]) = 2
        /\ \A p \in fseen[f] : decs[p] = 1

\* C6: once an attempt has completed without a transport error the loop is
\* left, whatever the status; a returning sendEntry call has made
\* min(retries, index of the first attempt without error) attempts.
C6_StopOnFirstExchange ==
    /\ okAt # 0 =>
          /\ wpc = "done"
          /\ attempts = okAt
          /\ status \in {"2xx", "non2xx"}
    /\ wpc = "done" =>
          attempts = IF okAt # 0 THEN okAt
                     ELSE IF retries >= 0 THEN retries ELSE 0
    /\ okAt <= attempts
    /\ (wcur # 0 /\ retries >= 0) => attempts <= retries

\* A first attempt answered with a non-2xx status ended the sequence of a
\* hook with two retries.
C6_Witness ==
    /\ wpc = "done"
    /\ status = "non2xx"
    /\ okAt = 1
    /\ attempts = 1
    /\ retries = 2

\* A Fire call is parked at the send on a full queue.
Blocked(c) == cpc[c] = "parked"

\* No payload is lost: a marshalled payload is with its caller (not yet in
\* the queue), in the queue, with the worker, or done.
Accounted(p) ==
    Cardinality({c \in Callers : ccur[c] = p /\ cpc[c] # "woken"})
      + Cardinality({k \in DOMAIN buf : buf[k] = p})
      + (IF wcur = p THEN 1 ELSE 0)
      + decs[p] = 1

\* C7: a Fire call that finds the queue full parks, with no result, and
\* stays parked through every step but a receive of the worker, which puts
\* its payload into the queue; the call then returns nil. No Fire returns an
\* error for a marshalled record, the queue never exceeds its capacity, and
\* no payload is dropped.
C7_BackpressureBlocks ==
    /\ [][\A c \in Callers : Blocked(c) =>
             \/ /\ cpc'[c] = "parked"
                /\ ccur'[c] = ccur[c]
                /\ fireRet'[ccur[c]] = "none"
                /\ ccur[c] \notin Range(admitted')
             \/ /\ Len(started') = Len(started) + 1
                /\ cpc'[c] = "woken"
                /\ ccur'[c] = ccur[c]
                /\ ccur[c] \in Range(admitted')]_vars
    /\ [](/\ Len(buf) <= bufCap
          /\ \A c \in Callers : Blocked(c) => Len(buf) = bufCap
          /\ \A c \in Callers : cpc[c] = "woken" => fireRet[ccur[c]] = "none"
          /\ \A p \in Ids : marshalled[p] = "ok" =>
                /\ Accounted(p)
                /\ fireRet[p] \in {"none", "nil"}
                /\ (fireRet[p] = "nil") => (p \in Range(admitted)))

\* A caller that had parked at a full queue of capacity 1 was resumed by
\* the worker's receive: its payload is queued behind the one the worker
\* sleeps on, and its Fire is about to return.
C7_Witness ==
    /\ bufCap = 1
    /\ wpc = "sleep"
    /\ \E c \in Callers : cpc[c] = "woken" /\ buf = <<ccur[c]>>

\* C8: for a record whose serialization failed, Fire has returned the error,
\* the counter was not incremented for it, and the record is neither queued
\* nor ever handled by the worker.
C8_MarshalFailureNoEffect ==
    /\ \A p \in Ids : marshalled[p] = "fail" =>
          /\ fireRet[p] = "err"
          /\ incs[p] = 0 /\ decs[p] = 0
          /\ p \notin Range(buf) \cup Range(admitted) \cup Range(started)
          /\ wcur # p
          /\ \A c \in Callers : ccur[c] # p
    /\ wg = Cardinality({p \in Ids : marshalled[p] = "ok" /\ incs[p] = 1 /\ decs[p] = 0})

\* A record failed to serialize and the record fired after it was delivered.
C8_Witness ==
    /\ marshalled[1] = "fail"
    /\ fireRet[1] = "err"
    /\ started = <<2>>
    /\ arrivals = <<2>>
    /\ decs[2] = 1

\* C9: Fire returns nil for every record that serialized, whatever happens
\* to its delivery, and returns an error only for a serialization failure.
C9_FireIgnoresDelivery ==
    \A p \in Ids :
        /\ (marshalled[p] = "ok" /\ fireRet[p] # "none") => fireRet[p] = "nil"
        /\ fireRet[p] = "err" => marshalled[p] = "fail"
        /\ (marshalled[p] = "ok" /\ \A c \in Callers : ccur[c] # p) =>
              fireRet[p] = "nil"

\* A payload whose Fire returned nil has exhausted its retries, while a
\* later Fire has returned nil as well.
C9_Witness ==
    /\ wpc = "done"
    /\ okAt = 0
    /\ sends = retries
    /\ retries >= 1
    /\ fireRet[wcur] = "nil"
    /\ \E p \in Ids : p # wcur /\ fireRet[p] = "nil" /\ p \notin Range(started)

\* C10: the counter is incremented once per accepted payload, not later than
\* the payload enters the queue, decremented once per payload, when its
\* sendEntry call returns, and never negative.
C10_CounterAccounting ==
    /\ wg >= 0
    /\ wg = SumOver(incs, Ids) - SumOver(decs, Ids)
    /\ \A p \in Ids :
          /\ incs[p] \in {0, 1}
          /\ decs[p] = IF Completed(p) THEN 1 ELSE 0
          /\ (p \in Range(admitted)) => incs[p] = 1
          /\ incs[p] = 1 => marshalled[p] = "ok"
          /\ (marshalled[p] = "ok" /\ incs[p] = 0) =>
                \E c \in Callers : ccur[c] = p /\ cpc[c] = "add"

\* The counter is 1 with one payload done and the other counted by a caller
\* that is parked at the send.
C10_Witness ==
    /\ wg = 1
    /\ SumOver(decs, Ids) = 1
    /\ \E c \in Callers : cpc[c] = "parked"

\* C14: the worker is either idle (at the receive, holding no payload) or
\* delivering exactly one payload, the last one it dequeued; every payload
\* dequeued before that one has had its sendEntry return and its Done, so no
\* request or sleep of a later payload overlaps an earlier payload's.
C14_OneAtATime ==
    /\ workers <= 1
    /\ hook = "ok" => ((wpc = "recv") = (wcur = 0))
    /\ wcur # 0 => (started # <<>> /\ wcur = started[Len(started)])
    /\ \A k \in DOMAIN started :
          (k < Len(started) \/ wpc = "recv") => decs[started[k]] = 1
    /\ wpc = "recv" => (attempts = 0 /\ sends = 0 /\ sleeps = 0 /\ wi = 0)
    /\ \A k \in DOMAIN arrivals : arrivals[k] # wcur => decs[arrivals[k]] = 1
    /\ (wpc \in {"do", "hung", "sleep"}) => wcur # 0

\* A payload waits in the queue while the worker sleeps between two
\* attempts for the one before it.
C14_Witness ==
    /\ wpc = "sleep"
    /\ sleeps = 0
    /\ sends = 1
    /\ retries = 2
    /\ Len(buf) = 1
    /\ started = <<1>>

\* C15: once a call of httpClient.Do hangs, it hangs for good: the counter
\* stays above zero, no Flush call returns any more (one in progress or
\* called later never gets out of Wait by a return), no further payload is
\* dequeued or sent, a caller parked at the full queue stays parked, and once
\* the queue is full nothing more is admitted.
C15_HangBlocksAll ==
    /\ [][wpc = "hung" =>
             /\ wpc' = "hung"
             /\ wcur' = wcur
             /\ started' = started
             /\ arrivals' = arrivals
             /\ decs' = decs
             /\ \A f \in Flushers : fpc'[f] = "returned" => fpc[f] = "returned"
             /\ \A c \in Callers : cpc[c] = "parked" => cpc'[c] = "parked"
             /\ Len(buf') >= Len(buf)
             /\ (Len(buf) = bufCap) => (admitted' = admitted /\ buf' = buf)]_vars
    /\ [](wpc = "hung" =>
             /\ wg >= 1
             /\ \A f \in Flushers : fpc[f] = "parked" => f \in wgWaiters)

\* The worker hangs on a request while a Flush is parked in Wait and a
\* caller is parked at the full queue.
C15_Witness ==
    /\ wpc = "hung"
    /\ \E f \in Flushers : fpc[f] = "parked"
    /\ \E c \in Callers : cpc[c] = "parked"
    /\ Len(buf) = bufCap

\* C16: the channel's capacity is the value BufSize has when NewGraylogHook
\* runs; an assignment to BufSize afterwards changes neither the capacity nor
\* the queue, the capacity never changes, and the queue never holds more
\* payloads than the capacity.
C16_CapacityFixedAtConstruction ==
    /\ [][(hook = "none" /\ hook' = "ok") => bufCap' = BufSize]_vars
    /\ [][hook = "ok" => bufCap' = bufCap]_vars
    /\ [][BufSize' # BufSize =>
             /\ bufCap' = bufCap
             /\ buf' = buf
             /\ sendq' = sendq
             /\ hook' = hook]_vars
    /\ [](Len(buf) <= bufCap)
    /\ [](sendq # <<>> => Len(buf) = bufCap)

\* BufSize was raised after a hook was made with capacity 1: the queue is
\* full with one payload and a caller is parked.
C16_Witness ==
    /\ hook = "ok"
    /\ bufCap = 1
    /\ BufSize = 2
    /\ Len(buf) = 1
    /\ \E c \in Callers : cpc[c] = "parked"

\* C17: a hook that was constructed has exactly one worker, started by the
\* construction and never again; before the construction and after a failed
\* one (os.Hostname() failed) there is no hook, no worker, and nothing was
\* set up.
C17_WorkerStartedOnce ==
    /\ [](hook = "ok" => (workers = 1 /\ wpc # "none"))
    /\ [](hook \in {"none", "failed"} =>
             /\ workers = 0
             /\ wpc = "none"
             /\ bufCap = 0 /\ buf = <<>> /\ wg = 0
             /\ nextId = 1
             /\ started = <<>>)
    /\ [][workers' # workers =>
             (hook = "none" /\ hook' = "ok" /\ workers' = workers + 1)]_vars
    /\ [][hook = "failed" => hook' = "failed"]_vars

\* A construction has failed: no hook and no worker.
C17_Witness ==
    /\ hook = "failed"
    /\ workers = 0
    /\ wpc = "none"

\* The callers that have done wg.Add(1) and whose payload is not in the
\* channel yet: before the send, or parked at it.
NotYetAdmitted == {c \in Callers : cpc[c] \in {"send", "parked"}}

\* C18: the counter is the number of queued payloads, plus one while the
\* worker is delivering, plus the callers that have incremented it and have
\* not got their payload into the queue.
C18_CounterBreakdown ==
    wg = Len(buf) + (IF wcur # 0 THEN 1 ELSE 0) + Cardinality(NotYetAdmitted)

\* A caller parked at the full queue is counted: the counter is above the
\* number of payloads queued or in delivery, and a Flush stays parked.
C18_Witness ==
    /\ \E c \in Callers : cpc[c] = "parked"
    /\ wg > Len(buf) + (IF wcur # 0 THEN 1 ELSE 0)
    /\ wg = Len(admitted) - SumOver(decs, Ids) + 1
    /\ \E f \in Flushers : fpc[f] = "parked"

\* C19: every failed attempt is followed by a sleep, the last one too: a
\* sendEntry call whose attempts all failed returns after as many sleeps as
\* attempts, the Done and the next receive coming after the last sleep; a
\* call ended by a completed exchange has slept only after the failures
\* before it.
C19_SleepAfterEveryFailure ==
    /\ wpc = "done" =>
          sleeps = IF okAt # 0 THEN okAt - 1 ELSE attempts
    /\ wpc = "sleep" =>
          /\ okAt = 0
          /\ sleeps = attempts - 1
          /\ wcur # 0 /\ decs[wcur] = 0
          /\ wcur = started[Len(started)]
    /\ wpc = "loop" => sleeps = attempts
    /\ (wpc = "done" /\ okAt # 0) => status # "none"

\* The worker is in the sleep that follows the failure of the last of two
\* attempts, the payload's Done still to come and the next payload queued.
C19_Witness ==
    /\ wpc = "sleep"
    /\ retries = 2
    /\ attempts = 2
    /\ sends = 2
    /\ sleeps = 1
    /\ wg = 2
    /\ Len(buf) = 1

\* C20: a hook constructed with a negative retry count works like one with
\* retries = 0: the worker enters the loop body for no payload (no attempt,
\* no request, no sleep) and does Done once per payload it dequeued.
C20_NegativeRetries ==
    (hook = "ok" /\ retries < 0) =>
        /\ attempts = 0 /\ sends = 0 /\ sleeps = 0 /\ wi = 0
        /\ wpc \in {"recv", "loop", "done"}
        /\ arrivals = <<>>
        /\ \A p \in Ids : decs[p] = IF Completed(p) THEN 1 ELSE 0
        /\ wg = Len(buf) + (IF wcur # 0 THEN 1 ELSE 0)
                + Cardinality({c \in Callers : cpc[c] \in {"send", "parked"}})

\* A hook made with retries = -1 has discarded two payloads without a
\* request, and a Flush has returned.
C20_Witness ==
    /\ hook = "ok"
    /\ retries = -1
    /\ started = <<1, 2>>
    /\ \A p \in Ids : decs[p] = 1
    /\ wg = 0
    /\ \E f \in Flushers : fpc[f] = "returned" /\ fseen[f] = {1, 2}

\* C11: Levels() returns exactly the levels numerically at or below the
\* hook's Level at the time of the call: each such level of logrus.AllLevels
\* once, and no other.
C11_LevelsAtOrBelow ==
    levelsRet.called =>
        /\ Range(levelsRet.levels) = {l \in Range(AllLevels) : l <= levelsRet.T}
        /\ NoDuplicates(levelsRet.levels)

\* Levels() was called after the client lowered the Level to Error (2), and
\* returned three levels.
C11_Witness ==
    /\ levelsRet.called
    /\ levelsRet.T = 2
    /\ Len(levelsRet.levels) = 3

\* C12: the payload of every record Fire accepts carries version "1.0", the
\* hook's hostname and facility (those of the environment at construction)
\* and the hook's extra map, whatever the record's own field map holds; the
\* record's fields travel apart, under log_fields.
C12_EnvelopeFromHook ==
    wire.st = "ok" =>
        /\ hook = "ok"
        /\ {"version", "host", "facility"} \subseteq wire.present
        /\ wire.version = "1.0"
        /\ wire.host = hookCfg.hostname
        /\ wire.host = env.host
        /\ wire.facility = hookCfg.facility
        /\ wire.facility = env.prog
        /\ wire.extra = JsonMap(env.extra)
        /\ ("extra" \in wire.present) = (DOMAIN env.extra # {})
        /\ wire.log_fields = JsonMap(entry.Data)

\* Fire accepted a record that has a field named "host", on a hook with a
\* non-empty extra map, and went on to wg.Add.
C12_Witness ==
    /\ wire.st = "ok"
    /\ "host" \in DOMAIN entry.Data
    /\ DOMAIN hookCfg.extra # {}
    /\ env.host = "h2"
    /\ cpc["c1"] = "add"

\* C13: what the collector decodes from the payload of a record is the
\* record's message, the record's timestamp and the record's field values.
C13_RoundTrip ==
    decoded.st = "ok" =>
        /\ decoded.message = entry.Message
        /\ decoded.timestamp = entry.Time
        /\ decoded.fields = JsonMap(entry.Data)
====
